---- MODULE Spec2Model ----
(***************************************************************************)
(* Model of the reminder bot of src/bot/main.py: the conversation state    *)
(* machine, the cancellable work/rest loop task, the stop/resume control   *)
(* surface and the JSON file that persists the last durations per chat.    *)
(*                                                                         *)
(* Scheduling.  build_application() builds the Application with its        *)
(* defaults, so updates are processed one at a time and every handler is   *)
(* awaited to its end before the next update is dispatched.  The loop      *)
(* tasks created with asyncio.create_task run on the same event loop and   *)
(* take their steps whenever a handler is suspended at an await, or when   *)
(* no handler runs.  A handler is therefore a sequence of atomic steps     *)
(* separated by its awaits; awaits of replies that precede every state     *)
(* change of the handler are folded into the step that follows them.       *)
(*                                                                         *)
(* One Telegram user talks to the bot in every chat of Chats: the          *)
(* conversation state is kept per (chat, user), chat_data per chat and     *)
(* user_data per user.                                                     *)
(*                                                                         *)
(* Time is the clock of the household reminders: it advances to the next   *)
(* instant of interest, and a job of the JobQueue runs once it is due.     *)
(* Updates that arrive while a handler is in progress wait in queue.  A    *)
(* save is also modelled step by step (temporary file, dump, os.replace)   *)
(* for what a reader of the state file can see.                            *)
(***************************************************************************)
EXTENDS Integers, Sequences, FiniteSets, TLC

\* ------------------------------------------------------------------ bounds
NumChats == 2
MaxTasks == 2
MaxLog == 2
MaxJobs == 1
MaxMinutes == 2
MaxQueue == 2

Chats == 1..NumChats
TaskIds == 1..MaxTasks
Minutes == 1..MaxMinutes

\* update.effective_chat.id of the chat whose conversation the
\* specifications follow; the state of the other chats is what earlier runs
\* of the bot left of them in the state file.
TheChat == 1

\* ------------------------------------------------------- optional values
\* Python's None is the empty tuple, a present value x is <<x>>.
None == <<>>
Some(x) == <<x>>
IsNone(o) == o = <<>>
Get(o) == o[1]

\* ---------------------------------------------------------------- texts
\* A text is a sequence of characters.  Characters are named in ASCII:
\* "sup2" is U+00B2 (superscript two), the upper-case letters "R" and "B"
\* stand for the capital initials of the two kind labels of line 76.
DecDigits == {"0", "1", "2", "3", "4", "5", "6", "7", "8", "9"}

DigitVal(ch) ==
    CASE ch = "0" -> 0 [] ch = "1" -> 1 [] ch = "2" -> 2 [] ch = "3" -> 3
      [] ch = "4" -> 4 [] ch = "5" -> 5 [] ch = "6" -> 6 [] ch = "7" -> 7
      [] ch = "8" -> 8 [] ch = "9" -> 9

\* str.isdigit() of one character: decimal digits and the other characters
\* of Unicode's Numeric_Type=Digit, such as the superscript digits.
IsDigitChar(ch) == ch \in DecDigits \cup {"sup2"}

IsSpace(ch) == ch = " "

RECURSIVE lstrip(_)
lstrip(t) == IF t # <<>> /\ IsSpace(Head(t)) THEN lstrip(Tail(t)) ELSE t

RECURSIVE rstrip(_)
rstrip(t) ==
    IF t # <<>> /\ IsSpace(t[Len(t)]) THEN rstrip(SubSeq(t, 1, Len(t) - 1)) ELSE t

\* str.strip()
strip(t) == rstrip(lstrip(t))

LowerChar(ch) == CASE ch = "R" -> "r" [] ch = "B" -> "b" [] OTHER -> ch

\* str.lower()
lower(t) == [i \in 1..Len(t) |-> LowerChar(t[i])]

\* str.isdigit(): at least one character and all of them digits
isdigit(t) == t # <<>> /\ \A i \in 1..Len(t) : IsDigitChar(t[i])

\* int(text) for a text without sign, blanks or underscores: it raises
\* ValueError unless every character is a decimal digit.
IntRaises(t) == t = <<>> \/ \E i \in 1..Len(t) : t[i] \notin DecDigits

RECURSIVE IntValue(_)
IntValue(t) ==
    IF t = <<>> THEN 0
    ELSE 10 * IntValue(SubSeq(t, 1, Len(t) - 1)) + DigitVal(t[Len(t)])

\* The kind labels of _get_choice_keyboard, lower-cased as choose_schedule
\* compares them (lines 106 and 113).
LabelWork == <<"r", "a", "b", "o", "ch", "e", "e">>
LabelHousehold == <<"b", "y", "t", "o", "v", "o", "e">>

\* datetime.strptime(text, "%H:%M").time(): one or two digits of an hour
\* below 24, a colon, one or two digits of a minute below 60, nothing else.
\* <<>> is the ValueError, <<h, m>> the parsed time of day.
ColonAt(t) == {i \in 1..Len(t) : t[i] = ":"}

IsField(t, limit) ==
    /\ Len(t) \in {1, 2}
    /\ \A i \in 1..Len(t) : t[i] \in DecDigits
    /\ IntValue(t) < limit

strptime(t) ==
    IF Cardinality(ColonAt(t)) # 1 THEN <<>>
    ELSE LET k == CHOOSE i \in ColonAt(t) : TRUE
             hh == SubSeq(t, 1, k - 1)
             mm == SubSeq(t, k + 1, Len(t))
         IN  IF IsField(hh, 24) /\ IsField(mm, 60)
             THEN <<IntValue(hh), IntValue(mm)>>
             ELSE <<>>

\* The texts a user sends in the model, by the state they are sent in;
\* each sample holds texts the state accepts and texts it rejects.
KindTexts ==
    { <<"R", "a", "b", "o", "ch", "e", "e">>,
      <<" ", "r", "a", "b", "o", "ch", "e", "e", " ">>,
      <<"B", "y", "t", "o", "v", "o", "e">>,
      <<"r", "a", "b">>, <<"1">>, <<>> }

DurationTexts ==
    { <<"1">>, <<"0", "2">>, <<" ", "2", " ">>, <<"0">>, <<"sup2">>,
      <<"-", "1">>, <<"a", "b", "c">>, <<>>, <<" ">> }

TimeTexts ==
    { <<"0", "8", ":", "0", "0">>, <<" ", "8", ":", "0", "0">>,
      <<"2", "4", ":", "0", "0">>, <<"8", ":", "6", "0">>, <<"8">>,
      <<"a", "b", "c">>, <<>> }

ReminderTexts == { <<"a", "b", "c">>, <<" ", "a", "b", "c", " ">>, <<" ">>, <<>> }

\* Time is counted in whole seconds since the midnight that starts day 0.
\* datetime.now() reads the clock; the process is started at 07:00:00 and
\* the clock passes 08:00:00 and 09:00:00 and the times the jobs are due.
StartTime == 7 * 3600

Instants == {7 * 3600, 8 * 3600, 9 * 3600}

SecondsPerDay == 24 * 3600

\* ------------------------------------------------------- the state file
\* The content of schedule_state.json: missing, not parseable as JSON, or a
\* JSON value.  A JSON object is a function from keys to entries; an entry
\* written by the bot is {"work": w, "rest": r}.
FileMissing == [kind |-> "missing", top |-> "none", data |-> <<>>]
FileDict(d) == [kind |-> "json", top |-> "dict", data |-> d]

\* Content that json.load rejects, such as a file written in part
FileCorrupt == [kind |-> "corrupt", top |-> "none", data |-> <<>>]

\* A JSON value that is not an object, such as []
FileList == [kind |-> "json", top |-> "list", data |-> <<>>]

EmptyDict == [top |-> "dict", data |-> <<>>]

\* str(chat_id)
str(chat_id) == ToString(chat_id)

Entry(w, r) == [fmt |-> "ok", work |-> w, rest |-> r]

\* An entry that line 66 or line 68 rejects: not an object, a key missing,
\* or a value that int() does not take
BadEntry == [fmt |-> "bad", work |-> 0, rest |-> 0]

\* A save that writes its own record and drops the others
DictSet_alone(d, key, entry) == [k \in {key} |-> entry]

\* dict item assignment data[key] = entry
DictSet(d, key, entry) ==
    [k \in (DOMAIN d) \cup {key} |-> IF k = key THEN entry ELSE d[k]]

\* The file as an earlier run left it when only other chats had saved.
OtherChats == [k \in {str(c) : c \in Chats \ {TheChat}} |-> Entry(2, 1)]

\* A mapping in which the entry of the chat is not a record
BadOwn == [k \in {str(TheChat)} |-> BadEntry]

\* The contents the file may have when the process starts
StoreFiles ==
    {FileMissing, FileCorrupt, FileList, FileDict(OtherChats), FileDict(BadOwn)}

_load_state(f) ==
    IF f.kind = "json" THEN [top |-> f.top, data |-> f.data] ELSE EmptyDict

\* [exc |-> the call raised, file |-> the content of the file afterwards]
_save_state_for_chat(f, chat_id, work_m, rest_m) ==
    LET data == _load_state(f)
    IN  IF data.top # "dict"
        THEN [exc |-> TRUE, file |-> f]
        ELSE [exc |-> FALSE,
              file |-> FileDict(DictSet(data.data, str(chat_id), Entry(work_m, rest_m)))]

\* line 68 with the two values in the other order
_get_saved_durations_swapped(f, chat_id) ==
    LET data == _load_state(f)
    IN  IF data.top # "dict"
        THEN [exc |-> TRUE, ret |-> None]
        ELSE IF str(chat_id) \in DOMAIN data.data
                /\ data.data[str(chat_id)].fmt = "ok"
             THEN [exc |-> FALSE,
                   ret |-> Some(<<data.data[str(chat_id)].rest,
                                  data.data[str(chat_id)].work>>)]
             ELSE [exc |-> FALSE, ret |-> None]

\* [exc |-> the call raised, ret |-> None or Some(<<work, rest>>)]
_get_saved_durations(f, chat_id) ==
    LET data == _load_state(f)
    IN  IF data.top # "dict"
        THEN [exc |-> TRUE, ret |-> None]
        ELSE IF str(chat_id) \in DOMAIN data.data
                /\ data.data[str(chat_id)].fmt = "ok"
             THEN [exc |-> FALSE,
                   ret |-> Some(<<data.data[str(chat_id)].work,
                                  data.data[str(chat_id)].rest>>)]
             ELSE [exc |-> FALSE, ret |-> None]

\* schedule_state.json.tmp (line 57): absent, or the mapping that a save is
\* writing or has written to it.  done: json.dump has returned and the file
\* is closed (line 59); writer: the save that opened it has not ended; call:
\* the arguments of that save.
NoTmp ==
    [kind |-> "none", data |-> <<>>, done |-> FALSE, writer |-> FALSE,
     call |-> <<>>]

\* ------------------------------------------------------------- the state
\* States of the ConversationHandler (line 28); END is ConversationHandler.END,
\* also the state of a conversation that was never started.
CHOOSING_SCHEDULE == "CHOOSING_SCHEDULE"
WORK_DURATION == "WORK_DURATION"
REST_DURATION == "REST_DURATION"
HOUSEHOLD_TIME == "HOUSEHOLD_TIME"
HOUSEHOLD_TEXT == "HOUSEHOLD_TEXT"
END == "END"

VARIABLES
    conv,        \* conversation state of the user in each chat
    user_data,   \* context.user_data of the user
    chat_data,   \* context.chat_data of each chat
    tasks,       \* the asyncio tasks running _work_rest_loop, per chat and id
    file,        \* content of schedule_state.json
    jobs,        \* one-shot jobs of the JobQueue
    log,         \* phase messages sent to each chat since its last create_task
    hdl,         \* the handler in progress, suspended at an await, or Idle
    last,        \* outcome of the handler that completed last
    started,     \* history: durations of the cycle started last in each chat
    clock,       \* the time, in seconds since the midnight that starts day 0
    sent,        \* the reminders sent by _household_job_cb so far
    due,         \* history: target_dt computed last by household_time in each chat
    entered,     \* history: minutes accepted last by work_duration in each chat
    tmp,         \* schedule_state.json.tmp and the save that is writing it
    queue        \* updates that arrived while a handler was in progress

vars ==
    <<conv, user_data, chat_data, tasks, file, jobs, log, hdl, last, started,
      clock, sent, due, entered, tmp, queue>>

NoTask == [st |-> "none", pc |-> "-", work_m |-> 0, rest_m |-> 0, acked |-> FALSE]

\* A finished Task object: its coroutine frame is gone.
Finished(st, acked) ==
    [st |-> st, pc |-> "-", work_m |-> 0, rest_m |-> 0, acked |-> acked]

\* asyncio.Task.done()
done(t) == t.st \in {"cancelled", "failed"}

Idle ==
    [op |-> "idle", chat |-> 0, pc |-> "-", work_m |-> 0, rest_m |-> 0, task |-> 0,
     cancelled |-> FALSE]

\* A handler suspended at an await, with the locals it goes on with.
Suspended(op, c, pc, w, r, id, cancelled) ==
    [op |-> op, chat |-> c, pc |-> pc, work_m |-> w, rest_m |-> r, task |-> id,
     cancelled |-> cancelled]

StopOps == {"stop_command", "stop_button"}
ResumeOps == {"resume_command", "resume_button"}

\* What a completed handler did: its reply, the value returned by
\* _cancel_any_running_schedule where it was called, and the durations of
\* the cycle it started.  For a stop, prev is the reply of the handler that
\* completed just before it when that was a stop in the same chat.
Outcome(op, c, out, cancelled, cfg) ==
    [op |-> op, chat |-> c, out |-> out, cancelled |-> cancelled, cfg |-> cfg,
     prev |-> IF op \in StopOps /\ last.op \in StopOps /\ last.chat = c
              THEN last.out ELSE "-"]

\* Updates handled as they arrive, each in a task of its own
Take_concurrent(op, c) ==
    IF queue = <<>>
    THEN queue' = queue
    ELSE /\ Head(queue).op = op
         /\ Head(queue).chat = c
         /\ queue' = Tail(queue)

\* build_application builds the Application with its defaults (line 362):
\* updates are handled one at a time, in the order of their arrival.  The
\* update of handler op in chat c is taken when no handler is in progress;
\* it is the first of the updates that wait, or one that arrives just now
\* when none waits.
Take(op, c) ==
    /\ hdl = Idle
    /\ IF queue = <<>>
       THEN queue' = queue
       ELSE /\ Head(queue).op = op
            /\ Head(queue).chat = c
            /\ queue' = Tail(queue)

EmptyChatData ==
    [work_rest_task |-> None, last_work_m |-> None, last_rest_m |-> None]

EmptyUserData ==
    [work_minutes |-> None, rest_minutes |-> None, household_delay |-> None]

Init ==
    /\ conv = [c \in Chats |-> END]
    /\ user_data = EmptyUserData
    /\ chat_data = [c \in Chats |-> EmptyChatData]
    /\ tasks = [c \in Chats |-> [i \in TaskIds |-> NoTask]]
    /\ file \in {FileMissing, FileDict(OtherChats)}
    /\ jobs = <<>>
    /\ log = [c \in Chats |-> <<>>]
    /\ hdl = Idle
    /\ last = [op |-> "none", chat |-> 0, out |-> "-", cancelled |-> None,
               cfg |-> None, prev |-> "-"]
    /\ started = [c \in Chats |-> None]
    /\ clock = StartTime
    /\ sent = <<>>
    /\ due = [c \in Chats |-> None]
    /\ entered = [c \in Chats |-> None]
    /\ tmp = NoTmp
    /\ queue = <<>>

\* The first MaxLog phase messages of a cycle are recorded.
Record(lg, c, ph, by) ==
    IF Len(lg[c]) < MaxLog
    THEN [lg EXCEPT ![c] = Append(@, [ph |-> ph, by |-> by])]
    ELSE lg

\* ------------------------------------------------------ _work_rest_loop
\* lines 329-334 and 337-342: one phase message is sent, then the task sleeps
\* for the phase; pc names the phase whose message is sent next.
LoopSend(c, i) ==
    /\ tasks[c][i].st = "live"
    /\ log' = Record(log, c, tasks[c][i].pc, i)
    /\ tasks' = [tasks EXCEPT ![c][i].pc = IF @ = "work" THEN "rest" ELSE "work"]
    /\ UNCHANGED <<conv, user_data, chat_data, file, jobs, hdl, last, started, clock, sent, due, entered, tmp, queue>>

\* send_message raises (the Messenger fails): the exception is not a
\* CancelledError, it leaves the loop and the task finishes with it.
LoopSendFails(c, i) ==
    /\ tasks[c][i].st = "live"
    /\ tasks' = [tasks EXCEPT ![c][i] = Finished("failed", FALSE)]
    /\ UNCHANGED <<conv, user_data, chat_data, file, jobs, log, hdl, last, started, clock, sent, due, entered, tmp, queue>>

\* lines 343-345: CancelledError is delivered at the await the task is
\* suspended at (or before its first step), logged and re-raised.
LoopCancelled(c, i) ==
    /\ tasks[c][i].st = "cancelling"
    /\ tasks' = [tasks EXCEPT ![c][i] = Finished("cancelled", FALSE)]
    /\ UNCHANGED <<conv, user_data, chat_data, file, jobs, log, hdl, last, started, clock, sent, due, entered, tmp, queue>>

\* --------------------------------------- _cancel_any_running_schedule
\* line 312
SlotTask(c) == chat_data[c].work_rest_task

\* line 313 with the test of done() inverted
TaskRunning_inverted(c) == ~IsNone(SlotTask(c)) /\ done(tasks[c][Get(SlotTask(c))])

\* line 313: task and not task.done()
TaskRunning(c) == ~IsNone(SlotTask(c)) /\ ~done(tasks[c][Get(SlotTask(c))])

\* line 314: task.cancel()
Cancel(tk, c, i) == [tk EXCEPT ![c][i].st = "cancelling"]

\* lines 319 and 321: context.chat_data.pop("work_rest_task", None)
PopSlot(cd, c) == [cd EXCEPT ![c].work_rest_task = None]

\* lines 314-316: the handler op cancels the task of the slot and is
\* suspended at "await task"; w and r are the handler's local durations.
CancelAndAwait(op, c, w, r) ==
    /\ tasks' = Cancel(tasks, c, Get(SlotTask(c)))
    /\ hdl' = Suspended(op, c, "await", w, r, Get(SlotTask(c)), FALSE)
    /\ UNCHANGED <<chat_data, file, jobs, log, last, started, clock, sent, due, entered, tmp>>

\* line 316 without the await: the handler goes on at once
Awaited_nowait(op, c) ==
    /\ hdl.op = op
    /\ hdl.chat = c
    /\ hdl.pc = "await"

\* "await task" returns once the task has finished.
Awaited(op, c) ==
    /\ hdl.op = op
    /\ hdl.chat = c
    /\ hdl.pc = "await"
    /\ done(tasks[c][hdl.task])

\* lines 319-320: chat_data and tasks when the call returns, and the value
\* it returns; the task's cancellation is acknowledged to the caller.
AfterCancelTrue(c) ==
    [cd |-> PopSlot(chat_data, c),
     tk |-> [tasks EXCEPT ![c][hdl.task].acked = TRUE],
     ret |-> TRUE]

\* line 322 returning True
AfterCancelFalse_true(c) == [cd |-> PopSlot(chat_data, c), tk |-> tasks, ret |-> TRUE]

\* lines 321-322: the same where no task was running
AfterCancelFalse(c) == [cd |-> PopSlot(chat_data, c), tk |-> tasks, ret |-> FALSE]

\* asyncio.create_task(_work_rest_loop(...)): a finished task that nothing
\* references is collected, and its id is free again.
FreeIds(cd, tk, c) ==
    {i \in TaskIds : tk[c][i].st = "none"
                     \/ (done(tk[c][i]) /\ cd[c].work_rest_task # Some(i))}

NewId(cd, tk, c) == CHOOSE i \in FreeIds(cd, tk, c) : \A j \in FreeIds(cd, tk, c) : i <= j

create_task(tk, c, i, work_m, rest_m) ==
    [tk EXCEPT ![c][i] =
        [st |-> "live", pc |-> "work", work_m |-> work_m, rest_m |-> rest_m,
         acked |-> FALSE]]

\* ------------------------------------------------------------ handlers
\* A handler that returns its own state after a plain re-prompt.
Reprompt(op, c) ==
    /\ hdl' = Idle
    /\ last' = Outcome(op, c, "reprompt", None, None)
    /\ UNCHANGED <<conv, user_data, chat_data, tasks, file, jobs, log, started, clock, sent, due, entered, tmp>>

\* A handler that is left by an exception before it changed anything: the
\* dispatcher logs it through _error_handler (lines 356-357) and keeps the
\* conversation state.
Raised(op, c) ==
    /\ hdl' = Idle
    /\ last' = Outcome(op, c, "raised", None, None)
    /\ UNCHANGED <<conv, user_data, chat_data, tasks, file, jobs, log, started, clock, sent, due, entered, tmp>>

\* start, lines 96-100, after _cancel_any_running_schedule has returned
start_tail(c, after) ==
    /\ chat_data' = after.cd
    /\ tasks' = after.tk
    /\ conv' = [conv EXCEPT ![c] = CHOOSING_SCHEDULE]
    /\ hdl' = Idle
    /\ last' = Outcome("start", c, "choose", Some(after.ret), None)
    /\ UNCHANGED <<user_data, file, jobs, log, started, clock, sent, due, entered, tmp>>

\* /start is an entry point and allow_reentry is set: it is handled in
\* every conversation state.
start(c) ==
    /\ Take("start", c)
    /\ IF TaskRunning(c)
       THEN CancelAndAwait("start", c, 0, 0) /\ UNCHANGED <<conv, user_data>>
       ELSE start_tail(c, AfterCancelFalse(c))

start_awaited(c) ==
    /\ Awaited("start", c)
    /\ UNCHANGED queue
    /\ start_tail(c, AfterCancelTrue(c))

choose_schedule(c, text) ==
    /\ Take("choose_schedule", c)
    /\ conv[c] = CHOOSING_SCHEDULE
    /\ LET choice == lower(strip(text))
       IN  IF choice = LabelWork
           THEN /\ conv' = [conv EXCEPT ![c] = WORK_DURATION]
                /\ last' = Outcome("choose_schedule", c, "askWork", None, None)
                /\ UNCHANGED <<user_data, chat_data, tasks, file, jobs, log, hdl, started, clock, sent, due, entered, tmp>>
           ELSE IF choice = LabelHousehold
           THEN /\ conv' = [conv EXCEPT ![c] = HOUSEHOLD_TIME]
                /\ last' = Outcome("choose_schedule", c, "askTime", None, None)
                /\ UNCHANGED <<user_data, chat_data, tasks, file, jobs, log, hdl, started, clock, sent, due, entered, tmp>>
           ELSE Reprompt("choose_schedule", c)

work_duration(c, text) ==
    /\ Take("work_duration", c)
    /\ conv[c] = WORK_DURATION
    /\ LET t == strip(text)
       IN  IF ~isdigit(t) THEN Reprompt("work_duration", c)
           ELSE IF IntRaises(t) THEN Raised("work_duration", c)
           ELSE IF IntValue(t) <= 0 THEN Reprompt("work_duration", c)
           ELSE /\ user_data' = [user_data EXCEPT !.work_minutes = Some(IntValue(t))]
                /\ conv' = [conv EXCEPT ![c] = REST_DURATION]
                /\ last' = Outcome("work_duration", c, "askRest", None, None)
                /\ entered' = [entered EXCEPT ![c] = Some(IntValue(t))]
                /\ UNCHANGED <<chat_data, tasks, file, jobs, log, hdl, started, clock, sent, due, tmp>>

\* rest_duration, lines 157-163: the task is created and stored, the
\* durations are cached and saved; the handler is then suspended in the
\* send_message of line 166, unless the save raised.
rest_duration_start(c, after, work_m, rest_m) ==
    LET i == NewId(after.cd, after.tk, c)
        saved == _save_state_for_chat(file, c, work_m, rest_m)
    IN  /\ FreeIds(after.cd, after.tk, c) # {}
        /\ tasks' = create_task(after.tk, c, i, work_m, rest_m)
        /\ chat_data' = [after.cd EXCEPT ![c].work_rest_task = Some(i),
                                         ![c].last_work_m = Some(work_m),
                                         ![c].last_rest_m = Some(rest_m)]
        /\ log' = [log EXCEPT ![c] = <<>>]
        /\ started' = [started EXCEPT ![c] = Some(<<work_m, rest_m>>)]
        /\ file' = saved.file
        /\ IF saved.exc
           THEN /\ hdl' = Idle
                /\ last' = Outcome("rest_duration", c, "raised", Some(after.ret), None)
           ELSE /\ hdl' = Suspended("rest_duration", c, "send", work_m, rest_m, i,
                                    after.ret)
                /\ UNCHANGED last
        /\ tmp' = IF saved.exc THEN tmp ELSE NoTmp
        /\ UNCHANGED <<conv, jobs, clock, sent, due, entered>>

rest_duration(c, text) ==
    /\ Take("rest_duration", c)
    /\ conv[c] = REST_DURATION
    /\ LET t == strip(text)
       IN  IF ~isdigit(t) THEN Reprompt("rest_duration", c)
           ELSE IF IntRaises(t) THEN Raised("rest_duration", c)
           ELSE IF IntValue(t) <= 0 THEN Reprompt("rest_duration", c)
           ELSE /\ user_data' = [user_data EXCEPT !.rest_minutes = Some(IntValue(t))]
                /\ IF IsNone(user_data.work_minutes)
                   THEN /\ hdl' = Idle
                        /\ last' = Outcome("rest_duration", c, "raised", None, None)
                        /\ UNCHANGED <<conv, chat_data, tasks, file, jobs, log, started, clock, sent, due, entered, tmp>>
                   ELSE IF TaskRunning(c)
                   THEN /\ CancelAndAwait("rest_duration", c,
                                          Get(user_data.work_minutes), IntValue(t))
                        /\ UNCHANGED conv
                   ELSE rest_duration_start(c, AfterCancelFalse(c),
                                            Get(user_data.work_minutes), IntValue(t))

rest_duration_awaited(c) ==
    /\ Awaited("rest_duration", c)
    /\ UNCHANGED queue
    /\ rest_duration_start(c, AfterCancelTrue(c), hdl.work_m, hdl.rest_m)
    /\ UNCHANGED user_data

\* rest_duration, lines 166-173: the handler's own "work" message, then END
rest_duration_send(c) ==
    /\ hdl.op = "rest_duration"
    /\ hdl.chat = c
    /\ hdl.pc = "send"
    /\ log' = Record(log, c, "work", 0)
    /\ conv' = [conv EXCEPT ![c] = END]
    /\ hdl' = Idle
    /\ last' = Outcome("rest_duration", c, "started", Some(hdl.cancelled),
                       Some(<<hdl.work_m, hdl.rest_m>>))
    /\ UNCHANGED <<user_data, chat_data, tasks, file, jobs, started, clock, sent, due, entered, tmp, queue>>

\* lines 186-191: target_dt, the occurrence of h:m that the reminder is for
household_target(now, h, m) ==
    LET today_target == (now - (now % SecondsPerDay)) + h * 3600 + m * 60
    IN  IF today_target <= now
        THEN today_target + SecondsPerDay
        ELSE today_target

\* line 193: the delay in whole seconds
household_delay(now, h, m) == household_target(now, h, m) - now

household_time(c, text) ==
    /\ Take("household_time", c)
    /\ conv[c] = HOUSEHOLD_TIME
    /\ LET target_time == strptime(strip(text))
       IN  IF target_time = <<>> THEN Reprompt("household_time", c)
           ELSE /\ user_data' = [user_data EXCEPT !.household_delay =
                       Some(household_delay(clock, target_time[1], target_time[2]))]
                /\ due' = [due EXCEPT ![c] =
                       Some(household_target(clock, target_time[1], target_time[2]))]
                /\ conv' = [conv EXCEPT ![c] = HOUSEHOLD_TEXT]
                /\ last' = Outcome("household_time", c, "askText", None, None)
                /\ UNCHANGED <<chat_data, tasks, file, jobs, log, hdl, started, clock, sent, entered, tmp>>

\* context.job_queue.run_once(_household_job_cb, when=when, chat_id=chat_id,
\* data=text) with a timedelta: the job is due when seconds from now.  id
\* numbers the jobs in the order of their creation.
run_once(when, chat_id, data) ==
    [id |-> Len(jobs) + Len(sent) + 1, chat_id |-> chat_id, data |-> data,
     when |-> when, at |-> clock + when]

household_text(c, text) ==
    /\ Take("household_text", c)
    /\ conv[c] = HOUSEHOLD_TEXT
    /\ LET t == strip(text)
           delay_seconds == IF IsNone(user_data.household_delay)
                            THEN 0 ELSE Get(user_data.household_delay)
           when == IF delay_seconds > 0 THEN delay_seconds ELSE 0
       IN  IF t = <<>> THEN Reprompt("household_text", c)
           ELSE /\ Len(jobs) + Len(sent) < MaxJobs
                /\ jobs' = Append(jobs, run_once(when, c, t))
                /\ conv' = [conv EXCEPT ![c] = END]
                /\ last' = Outcome("household_text", c, "scheduled", None, None)
                /\ UNCHANGED <<user_data, chat_data, tasks, file, log, hdl, started,
                               clock, sent, due, entered, tmp>>

\* A job that stays in the queue after its run, as one of run_repeating
_household_job_cb_repeating(k) ==
    /\ k \in 1..Len(jobs)
    /\ jobs[k].at <= clock
    /\ sent' = Append(sent, [id |-> jobs[k].id, chat_id |-> jobs[k].chat_id,
                             text |-> jobs[k].data, at |-> clock])
    /\ UNCHANGED <<conv, user_data, chat_data, tasks, file, jobs, log, hdl, last,
                   started, clock, due, entered, tmp, queue>>

\* The JobQueue runs a job once, when it is due: the job is gone and its
\* text is sent, unless the text is missing (lines 204-206).
_household_job_cb(k) ==
    /\ k \in 1..Len(jobs)
    /\ jobs[k].at <= clock
    /\ jobs' = [j \in 1..(Len(jobs) - 1) |-> IF j < k THEN jobs[j] ELSE jobs[j + 1]]
    /\ sent' = Append(sent, [id |-> jobs[k].id, chat_id |-> jobs[k].chat_id,
                             text |-> jobs[k].data, at |-> clock])
    /\ UNCHANGED <<conv, user_data, chat_data, tasks, file, log, hdl, last, started,
                   clock, due, entered, tmp, queue>>

\* Time passes: the clock reaches the next of the instants of the model and
\* of the times at which jobs are due.
Later == {t \in Instants \cup {jobs[k].at : k \in 1..Len(jobs)} : t > clock}

Tick ==
    /\ Later # {}
    /\ clock' = CHOOSE t \in Later : \A u \in Later : t <= u
    /\ UNCHANGED <<conv, user_data, chat_data, tasks, file, jobs, log, hdl, last,
                   started, sent, due, entered, tmp, queue>>

\* ------------------------------------------------------- control surface
\* What a stop or resume handler leaves behind once it has completed.
Apply(op, c, eff) ==
    /\ chat_data' = eff.chat_data
    /\ tasks' = eff.tasks
    /\ log' = eff.log
    /\ hdl' = Idle
    /\ last' = Outcome(op, c, eff.out, eff.cancelled, eff.cfg)
    /\ started' = IF IsNone(eff.cfg) THEN started ELSE [started EXCEPT ![c] = eff.cfg]
    /\ UNCHANGED <<conv, user_data, file, jobs, clock, sent, due, entered, tmp>>

\* stop_command, lines 251-258, after the cancel call has returned
stop_command_effect(c, after) ==
    [chat_data |-> after.cd,
     tasks |-> after.tk,
     log |-> log,
     out |-> IF after.ret THEN "stopped" ELSE "nothing",
     cancelled |-> Some(after.ret),
     cfg |-> None]

\* /stop is a fallback of the conversation and a plain command handler: it
\* is handled in every conversation state and returns no new state.
stop_command(c) ==
    /\ Take("stop_command", c)
    /\ IF TaskRunning(c)
       THEN CancelAndAwait("stop_command", c, 0, 0) /\ UNCHANGED <<conv, user_data>>
       ELSE Apply("stop_command", c, stop_command_effect(c, AfterCancelFalse(c)))

stop_command_awaited(c) ==
    /\ Awaited("stop_command", c)
    /\ UNCHANGED queue
    /\ Apply("stop_command", c, stop_command_effect(c, AfterCancelTrue(c)))

\* stop_button, lines 236-247, after the cancel call has returned
stop_button_effect(c, after) ==
    [chat_data |-> after.cd,
     tasks |-> after.tk,
     log |-> log,
     out |-> IF after.ret THEN "stopped" ELSE "nothing",
     cancelled |-> Some(after.ret),
     cfg |-> None]

\* The button of an earlier phase message of the chat is pressed; the
\* handler's pattern (line 388) admits only STOP_SCHEDULE_CB.
stop_button(c) ==
    /\ Take("stop_button", c)
    /\ IF TaskRunning(c)
       THEN CancelAndAwait("stop_button", c, 0, 0) /\ UNCHANGED <<conv, user_data>>
       ELSE Apply("stop_button", c, stop_button_effect(c, AfterCancelFalse(c)))

stop_button_awaited(c) ==
    /\ Awaited("stop_button", c)
    /\ UNCHANGED queue
    /\ Apply("stop_button", c, stop_button_effect(c, AfterCancelTrue(c)))

\* resume_command, lines 291-299: the durations to resume with
resume_command_config(c) ==
    LET work_m == chat_data[c].last_work_m
        rest_m == chat_data[c].last_rest_m
    IN  IF IsNone(work_m) \/ IsNone(rest_m)
        THEN _get_saved_durations(file, c)
        ELSE [exc |-> FALSE, ret |-> Some(<<Get(work_m), Get(rest_m)>>)]

\* resume_command, lines 303-308
resume_command_effect(c, after, work_m, rest_m) ==
    LET i == NewId(after.cd, after.tk, c)
    IN  [chat_data |-> [after.cd EXCEPT ![c].work_rest_task = Some(i),
                                        ![c].last_work_m = Some(work_m),
                                        ![c].last_rest_m = Some(rest_m)],
         tasks |-> create_task(after.tk, c, i, work_m, rest_m),
         log |-> [log EXCEPT ![c] = <<>>],
         out |-> "resumed",
         cancelled |-> Some(after.ret),
         cfg |-> Some(<<work_m, rest_m>>)]

\* The reply of lines 275 and 297: nothing is saved for the chat.
NothingSaved(op, c) ==
    /\ hdl' = Idle
    /\ last' = Outcome(op, c, "noSaved", None, None)
    /\ UNCHANGED <<conv, user_data, chat_data, tasks, file, jobs, log, started, clock, sent, due, entered, tmp>>

resume_command(c) ==
    /\ Take("resume_command", c)
    /\ LET saved == resume_command_config(c)
       IN  IF saved.exc THEN Raised("resume_command", c)
           ELSE IF IsNone(saved.ret) THEN NothingSaved("resume_command", c)
           ELSE IF TaskRunning(c)
           THEN /\ CancelAndAwait("resume_command", c, Get(saved.ret)[1], Get(saved.ret)[2])
                /\ UNCHANGED <<conv, user_data>>
           ELSE /\ FreeIds(chat_data, tasks, c) # {}
                /\ Apply("resume_command", c,
                         resume_command_effect(c, AfterCancelFalse(c),
                                               Get(saved.ret)[1], Get(saved.ret)[2]))

resume_command_awaited(c) ==
    /\ Awaited("resume_command", c)
    /\ UNCHANGED queue
    /\ Apply("resume_command", c,
             resume_command_effect(c, AfterCancelTrue(c), hdl.work_m, hdl.rest_m))

\* resume_button, lines 268-277: the durations to resume with
resume_button_config(c) ==
    LET work_m == chat_data[c].last_work_m
        rest_m == chat_data[c].last_rest_m
    IN  IF IsNone(work_m) \/ IsNone(rest_m)
        THEN _get_saved_durations(file, c)
        ELSE [exc |-> FALSE, ret |-> Some(<<Get(work_m), Get(rest_m)>>)]

\* resume_button, lines 283-286
resume_button_effect(c, after, work_m, rest_m) ==
    LET i == NewId(after.cd, after.tk, c)
    IN  [chat_data |-> [after.cd EXCEPT ![c].work_rest_task = Some(i)],
         tasks |-> create_task(after.tk, c, i, work_m, rest_m),
         log |-> [log EXCEPT ![c] = <<>>],
         out |-> "resumed",
         cancelled |-> Some(after.ret),
         cfg |-> Some(<<work_m, rest_m>>)]

\* The button of an earlier stop reply of the chat is pressed; the
\* handler's pattern (line 389) admits only RESUME_SCHEDULE_CB.
resume_button(c) ==
    /\ Take("resume_button", c)
    /\ LET saved == resume_button_config(c)
       IN  IF saved.exc THEN Raised("resume_button", c)
           ELSE IF IsNone(saved.ret) THEN NothingSaved("resume_button", c)
           ELSE IF TaskRunning(c)
           THEN /\ CancelAndAwait("resume_button", c, Get(saved.ret)[1], Get(saved.ret)[2])
                /\ UNCHANGED <<conv, user_data>>
           ELSE /\ FreeIds(chat_data, tasks, c) # {}
                /\ Apply("resume_button", c,
                         resume_button_effect(c, AfterCancelFalse(c),
                                              Get(saved.ret)[1], Get(saved.ret)[2]))

resume_button_awaited(c) ==
    /\ Awaited("resume_button", c)
    /\ UNCHANGED queue
    /\ Apply("resume_button", c,
             resume_button_effect(c, AfterCancelTrue(c), hdl.work_m, hdl.rest_m))

\* The update of a command or of a button arrives while a handler is in
\* progress or other updates wait: it waits behind them.  during names the
\* handler of the same chat that was suspended at "await task" (line 316)
\* when the update arrived.
Arrive(op, c) ==
    /\ hdl # Idle \/ queue # <<>>
    /\ Len(queue) < MaxQueue
    /\ queue' = Append(queue,
                       [op |-> op, chat |-> c,
                        during |-> IF hdl.chat = c /\ hdl.pc = "await"
                                   THEN hdl.op ELSE "-"])
    /\ UNCHANGED <<conv, user_data, chat_data, tasks, file, jobs, log, hdl, last,
                   started, clock, sent, due, entered, tmp>>

\* ------------------------------------- _save_state_for_chat step by step
\* lines 55-58: the mapping is loaded, the record of the chat is set in it
\* and the temporary file is opened for writing, which empties it.  call
\* holds the arguments of the save.
save_open(chat_id, work_m, rest_m) ==
    /\ ~tmp.writer
    /\ LET saved == _save_state_for_chat(file, chat_id, work_m, rest_m)
       IN  IF saved.exc
           THEN /\ last' = Outcome("save", chat_id, "raised", None, None)
                /\ UNCHANGED tmp
           ELSE /\ tmp' = [kind |-> "file", data |-> saved.file.data, done |-> FALSE,
                           writer |-> TRUE, call |-> <<chat_id, work_m, rest_m>>]
                /\ UNCHANGED last
    /\ UNCHANGED <<conv, user_data, chat_data, tasks, file, jobs, log, hdl, started,
                   clock, sent, due, entered, queue>>

\* line 59: json.dump has written the whole mapping and the file is closed
save_dump ==
    /\ tmp.writer
    /\ ~tmp.done
    /\ tmp' = [tmp EXCEPT !.done = TRUE]
    /\ UNCHANGED <<conv, user_data, chat_data, tasks, file, jobs, log, hdl, last,
                   started, clock, sent, due, entered, queue>>

\* os.replace called while the temporary file is still being written
Written_early(t) == TRUE

\* line 60 is reached after the with block of lines 58-59 has been left
Written(t) == t.done

\* os.replace(tmp_path, STATE_PATH): the canonical file gets the content of
\* the temporary file in one step
os_replace(t) == IF t.done THEN FileDict(t.data) ELSE FileCorrupt

save_replace ==
    /\ tmp.writer
    /\ Written(tmp)
    /\ file' = os_replace(tmp)
    /\ tmp' = NoTmp
    /\ last' = Outcome("save", tmp.call[1], "saved", None,
                       Some(<<tmp.call[2], tmp.call[3]>>))
    /\ UNCHANGED <<conv, user_data, chat_data, tasks, jobs, log, hdl, started,
                   clock, sent, due, entered, queue>>

\* The process is stopped and started again (main, lines 396-399): all
\* in-memory state is gone, the state file remains.
Restart ==
    /\ conv' = [c \in Chats |-> END]
    /\ user_data' = EmptyUserData
    /\ chat_data' = [c \in Chats |-> EmptyChatData]
    /\ tasks' = [c \in Chats |-> [i \in TaskIds |-> NoTask]]
    /\ jobs' = <<>>
    /\ log' = [c \in Chats |-> <<>>]
    /\ hdl' = Idle
    /\ last' = Outcome("restart", 0, "-", None, None)
    /\ due' = [c \in Chats |-> None]
    /\ entered' = [c \in Chats |-> None]
    /\ tmp' = [tmp EXCEPT !.writer = FALSE]
    /\ queue' = <<>>
    /\ UNCHANGED <<file, started, clock, sent>>

\* -------------------------------------------------------- specification
\* The steps of the loop tasks and of the handlers suspended at an await
Background(c) ==
    \/ start_awaited(c)
    \/ rest_duration_awaited(c)
    \/ rest_duration_send(c)
    \/ stop_command_awaited(c)
    \/ stop_button_awaited(c)
    \/ resume_command_awaited(c)
    \/ resume_button_awaited(c)
    \/ \E i \in TaskIds : LoopSend(c, i)
    \/ \E i \in TaskIds : LoopSendFails(c, i)
    \/ \E i \in TaskIds : LoopCancelled(c, i)

\* The updates that start, stop and resume cycles
Control(c) ==
    \/ start(c)
    \/ \E text \in KindTexts : choose_schedule(c, text)
    \/ \E text \in DurationTexts : work_duration(c, text)
    \/ \E text \in DurationTexts : rest_duration(c, text)
    \/ stop_command(c)
    \/ stop_button(c)
    \/ resume_command(c)
    \/ resume_button(c)

\* The updates of the household flow
Household(c) ==
    \/ \E text \in TimeTexts : household_time(c, text)
    \/ \E text \in ReminderTexts : household_text(c, text)

\* The passing of time and the one-shot jobs that it makes due
Timers ==
    \/ Tick
    \/ \E k \in 1..MaxJobs : _household_job_cb(k)

\* The cycle scheduler, the control surface and the state file, across
\* restarts of the process.
Next == Control(TheChat) \/ Background(TheChat) \/ Restart

Spec == Init /\ [][Next]_vars

\* The whole conversation of one run of the process, at one instant: both
\* flows with all their input states, the control surface and the loop
\* tasks.
InitFlow == Init /\ file = FileMissing

NextFlow == Control(TheChat) \/ Household(TheChat) \/ Background(TheChat)

SpecFlow == InitFlow /\ [][NextFlow]_vars

\* The reminders of one run of the process as time passes: the household
\* flow, the jobs it schedules, and the cycle and control operations that
\* may come between the scheduling of a job and its run.
Cycle(c) ==
    \/ start(c)
    \/ \E text \in {LabelWork, LabelHousehold} : choose_schedule(c, text)
    \/ work_duration(c, <<"1">>)
    \/ rest_duration(c, <<"1">>)
    \/ stop_command(c)
    \/ resume_command(c)
    \/ start_awaited(c)
    \/ rest_duration_awaited(c)
    \/ rest_duration_send(c)
    \/ stop_command_awaited(c)
    \/ resume_command_awaited(c)
    \/ \E i \in TaskIds : LoopSend(c, i)
    \/ \E i \in TaskIds : LoopCancelled(c, i)

NextReminders == Cycle(TheChat) \/ Household(TheChat) \/ Timers

SpecReminders == InitFlow /\ [][NextReminders]_vars

\* The updates of the commands and buttons that arrive while handlers are
\* in progress, around one cycle flow.
Arrivals(c) ==
    \/ Arrive("start", c)
    \/ Arrive("stop_command", c)
    \/ Arrive("stop_button", c)
    \/ Arrive("resume_command", c)
    \/ Arrive("resume_button", c)

Surface(c) ==
    \/ start(c)
    \/ choose_schedule(c, LabelWork)
    \/ work_duration(c, <<"1">>)
    \/ rest_duration(c, <<"1">>)
    \/ stop_command(c)
    \/ stop_button(c)
    \/ resume_command(c)
    \/ resume_button(c)

NextQueue == Surface(TheChat) \/ Arrivals(TheChat) \/ Background(TheChat)

SpecQueue == InitFlow /\ [][NextQueue]_vars

\* One user in every chat: the ConversationHandler (lines 364-385) keeps one
\* conversation per chat and user, context.user_data is the user's in all
\* of them.  The duration flow of each chat, with two work durations.
DurationFlow(c) ==
    \/ start(c)
    \/ start_awaited(c)
    \/ choose_schedule(c, LabelWork)
    \/ \E t \in {<<"1">>, <<"2">>} : work_duration(c, t)
    \/ rest_duration(c, <<"1">>)
    \/ rest_duration_send(c)
    \/ \E i \in TaskIds : LoopSend(c, i)
    \/ \E i \in TaskIds : LoopCancelled(c, i)

NextChats == \E c \in Chats : DurationFlow(c)

SpecChats == InitFlow /\ [][NextChats]_vars

\* The store on its own: saves of any chats step by step, each of which the
\* end of the process may interrupt, from any content of the file.
InitStore ==
    /\ conv = [c \in Chats |-> END]
    /\ user_data = EmptyUserData
    /\ chat_data = [c \in Chats |-> EmptyChatData]
    /\ tasks = [c \in Chats |-> [i \in TaskIds |-> NoTask]]
    /\ file \in StoreFiles
    /\ jobs = <<>>
    /\ log = [c \in Chats |-> <<>>]
    /\ hdl = Idle
    /\ last = [op |-> "none", chat |-> 0, out |-> "-", cancelled |-> None,
               cfg |-> None, prev |-> "-"]
    /\ started = [c \in Chats |-> None]
    /\ clock = StartTime
    /\ sent = <<>>
    /\ due = [c \in Chats |-> None]
    /\ entered = [c \in Chats |-> None]
    /\ tmp = NoTmp
    /\ queue = <<>>

NextStore ==
    \/ \E c \in Chats, w \in Minutes, r \in Minutes : save_open(c, w, r)
    \/ save_dump
    \/ save_replace
    \/ Restart

SpecStore == InitStore /\ [][NextStore]_vars

\* The cycle scheduler and the control surface of Spec, started on any
\* content of the file.
SpecAnyFile == InitStore /\ [][Next]_vars

\* While the process runs, time goes on and the JobQueue runs the jobs that
\* are due.
SpecRemindersFair ==
    /\ SpecReminders
    /\ WF_vars(Tick)
    /\ WF_vars(\E k \in 1..MaxJobs : _household_job_cb(k))

\* ---------------------------------------------------------------- claims
\* The loop tasks of a chat that have not finished
Unfinished(c) == {i \in TaskIds : tasks[c][i].st \in {"live", "cancelling"}}

\* C1: in every reachable state, also in the middle of a handler, each chat
\* has at most one loop task that has not finished.
C1_AtMostOneLoopTask == \A c \in Chats : Cardinality(Unfinished(c)) <= 1

\* A start or resume that found a cycle running has completed, and one
\* unfinished task, the new one, exists.
C1_Witness ==
    /\ hdl = Idle
    /\ last.out \in {"started", "resumed"}
    /\ last.cancelled = Some(TRUE)
    /\ Cardinality(Unfinished(last.chat)) = 1

\* C2: the phase messages sent to a chat since the start of its cycle
\* alternate, beginning with one "work" message: work, rest, work, ...
C2_PhasesAlternate ==
    \A c \in Chats : \A k \in 1..Len(log[c]) :
        log[c][k].ph = (IF k % 2 = 1 THEN "work" ELSE "rest")

\* C3: a task whose cancellation has been acknowledged to the caller of
\* _cancel_any_running_schedule has finished, so it sends nothing any more,
\* and the slot of its chat does not reference it.
C3_AcknowledgedTaskIsGone ==
    \A c \in Chats : \A i \in TaskIds :
        tasks[c][i].acked =>
            /\ tasks[c][i].st \in {"cancelled", "failed"}
            /\ chat_data[c].work_rest_task # Some(i)

\* A stop has returned true and the task it cancelled is still on record.
C3_Witness ==
    /\ hdl = Idle
    /\ last.op \in StopOps
    /\ last.cancelled = Some(TRUE)
    /\ \E i \in TaskIds : tasks[last.chat][i].acked

\* A stop handler of chat c completes in this step.
StopCompletes(c) ==
    /\ hdl' = Idle
    /\ last'.op \in StopOps
    /\ last'.chat = c
    /\ last' # last

\* A cycle of chat c was running when the handler that completes in this
\* step was called: it was suspended for the task, or the task is there.
RunningAtCall(c) == hdl.op # "idle" \/ Unfinished(c) # {}

\* C4: a stop never raises; on a running cycle it reports true and leaves no
\* task unfinished; with no cycle running it reports false and leaves the
\* tasks as they are; the second of two successive stops reports false.
C4_StopTwice ==
    [][\A c \in Chats :
        StopCompletes(c) =>
            /\ last'.out # "raised"
            /\ RunningAtCall(c) => last'.cancelled = Some(TRUE) /\ Unfinished(c)' = {}
            /\ ~RunningAtCall(c) => last'.cancelled = Some(FALSE) /\ tasks' = tasks
            /\ last'.prev \in {"stopped", "nothing"} => last'.cancelled = Some(FALSE)
      ]_vars

\* The second of two successive stops has reported false after the first
\* reported true.
C4_Witness ==
    /\ last.op \in StopOps
    /\ last.prev = "stopped"
    /\ last.cancelled = Some(FALSE)

\* The record the file holds for chat c: None, or Some(<<work, rest>>)
Persisted(c) ==
    IF /\ file.kind = "json"
       /\ file.top = "dict"
       /\ ToString(c) \in DOMAIN file.data
       /\ file.data[ToString(c)].fmt = "ok"
    THEN Some(<<file.data[ToString(c)].work, file.data[ToString(c)].rest>>)
    ELSE None

\* The durations chat_data caches for chat c: None, or Some(<<work, rest>>)
Cached(c) ==
    IF IsNone(chat_data[c].last_work_m) \/ IsNone(chat_data[c].last_rest_m)
    THEN None
    ELSE Some(<<Get(chat_data[c].last_work_m), Get(chat_data[c].last_rest_m)>>)

\* C5: right after a handler has started a cycle (REST_DURATION completed,
\* resume command, resume button), the cached durations of the chat and its
\* persisted record both equal the durations of that cycle.
C5_StartRefreshesCacheAndStore ==
    (hdl = Idle /\ last.out \in {"started", "resumed"}) =>
        /\ Cached(last.chat) = last.cfg
        /\ Persisted(last.chat) = last.cfg

\* A resume handler of chat c completes in this step with a new cycle.
ResumeCompletes(c) ==
    /\ hdl' = Idle
    /\ last'.op \in ResumeOps
    /\ last'.chat = c
    /\ last'.out = "resumed"
    /\ last' # last

\* C6: a resume starts its cycle with the durations of the cycle that was
\* started last in the chat, also after stops, /start and restarts of the
\* process; they are the cached durations when there are any, the
\* persisted record otherwise.
C6_ResumeReproduces ==
    [][\A c \in Chats :
        ResumeCompletes(c) =>
            /\ ~IsNone(started[c])
            /\ last'.cfg = started[c]
            /\ last'.cfg = (IF IsNone(Cached(c)) THEN Persisted(c) ELSE Cached(c))
      ]_vars

\* A resume has started a cycle from the persisted record alone: nothing is
\* cached, as after a restart of the process.
C6_Witness ==
    /\ hdl = Idle
    /\ last.op \in ResumeOps
    /\ last.out = "resumed"
    /\ IsNone(Cached(last.chat))
    /\ last.cfg = started[last.chat]

\* Chat c has neither cached durations nor a valid persisted record.
NoConfig(c) == IsNone(Cached(c)) /\ IsNone(Persisted(c))

\* C7: a resume in a chat with neither cached durations nor a valid
\* persisted record, whatever else the file holds, replies that nothing is
\* saved, does not raise, starts no cycle and changes neither the slot, the
\* cache, the file nor the conversation.
C7_ResumeWithoutConfig ==
    [][\A c \in Chats :
        (/\ hdl = Idle
         /\ NoConfig(c)
         /\ last'.op \in ResumeOps
         /\ last'.chat = c
         /\ last' # last) =>
            /\ last'.out = "noSaved"
            /\ hdl' = Idle
            /\ UNCHANGED <<conv, user_data, chat_data, tasks, file, jobs, started>>
      ]_vars

\* A resume was refused although the file exists: it holds records of other
\* chats only.
C7_Witness ==
    /\ last.op \in ResumeOps
    /\ last.out = "noSaved"
    /\ file.kind = "json"
    /\ NoConfig(last.chat)

\* C8: whatever the state of the chat, the command and the button of stop
\* have the same effect and outcome, and so have the command and the button
\* of resume.
C8_SurfacesEquivalent ==
    \A c \in {TheChat} :
        /\ (hdl = Idle /\ Unfinished(c) = {}) =>
              /\ stop_command_effect(c, AfterCancelFalse(c))
                     = stop_button_effect(c, AfterCancelFalse(c))
              /\ resume_command_config(c) = resume_button_config(c)
              /\ LET saved == resume_command_config(c)
                 IN  (~saved.exc /\ ~IsNone(saved.ret)) =>
                        resume_command_effect(c, AfterCancelFalse(c),
                                              Get(saved.ret)[1], Get(saved.ret)[2])
                        = resume_button_effect(c, AfterCancelFalse(c),
                                               Get(saved.ret)[1], Get(saved.ret)[2])
        /\ (hdl.pc = "await" /\ hdl.chat = c /\ tasks[c][hdl.task].st = "cancelled") =>
              /\ hdl.op \in StopOps =>
                    stop_command_effect(c, AfterCancelTrue(c))
                        = stop_button_effect(c, AfterCancelTrue(c))
              /\ hdl.op \in ResumeOps =>
                    resume_command_effect(c, AfterCancelTrue(c), hdl.work_m, hdl.rest_m)
                        = resume_button_effect(c, AfterCancelTrue(c), hdl.work_m, hdl.rest_m)

\* What the states accept
IsKindLabel(text) == lower(strip(text)) \in {LabelWork, LabelHousehold}

DenotesPositiveInteger(text) ==
    LET t == strip(text)
    IN  /\ t # <<>>
        /\ \A i \in 1..Len(t) : t[i] \in DecDigits
        /\ \E i \in 1..Len(t) : t[i] # "0"

IsTimeOfDay(text) == strptime(strip(text)) # <<>>

IsReminder(text) == strip(text) # <<>>

\* The handler of chat c that completes in this step re-prompts and changes
\* nothing else.
Reprompted(c) ==
    /\ last'.out = "reprompt"
    /\ last'.chat = c
    /\ hdl' = Idle
    /\ UNCHANGED <<conv, user_data, chat_data, tasks, file, jobs, started>>

\* C9: in each input state a text that the state does not accept leaves the
\* conversation in the state, changes neither the buffered values, the slot
\* nor the file, is answered with a re-prompt and raises nothing.
C9_InvalidInputReprompts ==
    [][\A c \in Chats :
        /\ \A text \in KindTexts :
              (choose_schedule(c, text) /\ ~IsKindLabel(text)) => Reprompted(c)
        /\ \A text \in DurationTexts :
              (work_duration(c, text) /\ ~DenotesPositiveInteger(text)) => Reprompted(c)
        /\ \A text \in DurationTexts :
              (rest_duration(c, text) /\ ~DenotesPositiveInteger(text)) => Reprompted(c)
        /\ \A text \in TimeTexts :
              (household_time(c, text) /\ ~IsTimeOfDay(text)) => Reprompted(c)
        /\ \A text \in ReminderTexts :
              (household_text(c, text) /\ ~IsReminder(text)) => Reprompted(c)
      ]_vars

\* C10: when /start has completed, whatever state it was sent in, no loop
\* task of the chat is unfinished and the conversation is in
\* CHOOSING_SCHEDULE.
C10_StartResets ==
    (hdl = Idle /\ last.op = "start") =>
        /\ conv[last.chat] = CHOOSING_SCHEDULE
        /\ Unfinished(last.chat) = {}

\* /start was sent while a cycle was running and has completed.
C10_Witness ==
    /\ hdl = Idle
    /\ last.op = "start"
    /\ last.cancelled = Some(TRUE)
    /\ conv[last.chat] = CHOOSING_SCHEDULE

\* The earliest time at or after now whose time of day is h:m
NextOccurrence(now, h, m) ==
    now + ((h * 3600 + m * 60 + SecondsPerDay - (now % SecondsPerDay)) % SecondsPerDay)

\* C11: for every valid HH:MM text, whatever the time at which it is
\* accepted, the target that household_time computes is the earliest time
\* at or after now whose time of day is HH:MM.
C11_TargetIsNextOccurrence ==
    [][\A c \in Chats : \A text \in TimeTexts :
        (household_time(c, text) /\ IsTimeOfDay(text)) =>
            due'[c] = Some(NextOccurrence(clock, strptime(strip(text))[1],
                                          strptime(strip(text))[2]))
      ]_vars

\* C12: the job that household_text schedules is due at the target that
\* household_time computed when it accepted the HH:MM text of the chat,
\* however much time has passed since.
C12_JobDueAtTarget ==
    [][\A c \in Chats : \A text \in ReminderTexts :
        (household_text(c, text) /\ Len(jobs') > Len(jobs)) =>
            jobs'[Len(jobs')].at = Get(due[c])
      ]_vars

\* The reminders that wait for their time and those that were sent
PendingIds == {jobs[k].id : k \in 1..Len(jobs)}

SentIds == {sent[k].id : k \in 1..Len(sent)}

\* The message that the run of job j sends
Emission(j) == [id |-> j.id, chat_id |-> j.chat_id, text |-> j.data]

\* One step: an accepted reminder text becomes one new job for its chat; a
\* job stays as it is or goes and its text is sent to its chat once; nothing
\* else is sent.
C13_Step ==
    /\ \A c \in Chats : \A text \in ReminderTexts :
          (household_text(c, text) /\ IsReminder(text)) =>
              /\ Len(jobs') = Len(jobs) + 1
              /\ SubSeq(jobs', 1, Len(jobs)) = jobs
              /\ jobs'[Len(jobs')].chat_id = c
              /\ jobs'[Len(jobs')].data = strip(text)
              /\ jobs'[Len(jobs')].id \notin PendingIds \cup SentIds
              /\ sent' = sent
    /\ \A k \in 1..Len(jobs) :
          \/ /\ \E n \in 1..Len(jobs') : jobs'[n] = jobs[k]
             /\ jobs[k].id \notin SentIds'
          \/ /\ jobs[k].id \notin PendingIds'
             /\ Len(sent') = Len(sent) + 1
             /\ SubSeq(sent', 1, Len(sent)) = sent
             /\ Emission(jobs[k]) =
                    [id |-> sent'[Len(sent')].id, chat_id |-> sent'[Len(sent')].chat_id,
                     text |-> sent'[Len(sent')].text]
    /\ sent' # sent => \E k \in 1..Len(jobs) : jobs[k].id \notin PendingIds'

\* C13: while the process runs, every accepted reminder text is sent to its
\* chat exactly once: its job is sent at most once and is not lost, whatever
\* stops, resumes and /start come in between, and it is eventually sent.
C13_ExactlyOneEmission ==
    /\ [][C13_Step]_vars
    /\ \A id \in 1..(MaxJobs + 1) : (id \in PendingIds) ~> (id \in SentIds)

\* A reminder waits for its time although a running cycle was stopped after
\* it was scheduled.
C13_Witness ==
    /\ jobs # <<>>
    /\ hdl = Idle
    /\ last.op = "stop_command"
    /\ last.cancelled = Some(TRUE)

\* The mapping a reader gets from the file: the records of a JSON object,
\* none otherwise
Mapping(f) == IF f.kind = "json" /\ f.top = "dict" THEN f.data ELSE <<>>

\* A save returns in this step.
SaveReturns == tmp.writer /\ tmp'.kind = "none"

\* C14: when a save of (work, rest) for a chat returns, the persisted
\* mapping holds for that chat the one record {work, rest}, and for every
\* other key the record it held before, and no other key; so after any
\* sequence of saves each saved chat has the record saved last for it.
C14_SaveSetsOwnRecordOnly ==
    [][SaveReturns =>
        LET key == ToString(tmp.call[1])
        IN  /\ file'.kind = "json"
            /\ file'.top = "dict"
            /\ DOMAIN file'.data = DOMAIN Mapping(file) \cup {key}
            /\ file'.data[key] = [fmt |-> "ok", work |-> tmp.call[2], rest |-> tmp.call[3]]
            /\ \A k \in DOMAIN Mapping(file) \ {key} : file'.data[k] = Mapping(file)[k]
      ]_vars

\* A save of (2, 2) has returned and the file holds the record of the chat
\* next to the record of another chat.
C14_Witness ==
    /\ last.op = "save"
    /\ last.out = "saved"
    /\ Cardinality(DOMAIN Mapping(file)) = 2
    /\ Mapping(file)[ToString(last.chat)] = [fmt |-> "ok", work |-> 2, rest |-> 2]
    /\ tmp.kind = "none"

\* The file holds a JSON object.
IsObject(f) == f.kind = "json" /\ f.top = "dict"

\* The file holds a JSON object with a record {work, rest} for chat c.
HasRecord(f, c) ==
    /\ IsObject(f)
    /\ ToString(c) \in DOMAIN f.data
    /\ f.data[ToString(c)].fmt = "ok"

\* C15: whatever the file holds, no store operation raises; a file that
\* holds no JSON object loads as the empty mapping, and the lookup for a
\* chat without a record in the file returns None.
C15_StoreNeverRaises ==
    \A c \in Chats :
        /\ ~IsObject(file) => _load_state(file) = [top |-> "dict", data |-> <<>>]
        /\ ~_get_saved_durations(file, c).exc
        /\ ~HasRecord(file, c) => IsNone(_get_saved_durations(file, c).ret)
        /\ \A w \in Minutes, r \in Minutes : ~_save_state_for_chat(file, c, w, r).exc

\* C16: the content at the canonical location changes only in the one step
\* in which it becomes the whole mapping that a save has written to the
\* temporary file; at every other step of a save, and when a save is
\* interrupted, a reader sees the content it saw before.
C16_ReplaceIsAtomic ==
    [][file' # file =>
          /\ tmp.writer
          /\ tmp.done
          /\ file' = [kind |-> "json", top |-> "dict", data |-> tmp.data]
      ]_vars

\* The process has ended between the writing of the temporary file and the
\* rename: the temporary file holds the new mapping, the canonical file
\* does not.
C16_Witness ==
    /\ last.op = "restart"
    /\ tmp.kind = "file"
    /\ tmp.done
    /\ ~tmp.writer
    /\ file # [kind |-> "json", top |-> "dict", data |-> tmp.data]

\* The update at the head of the queue is taken in this step.
Taken == queue # <<>> /\ queue' = Tail(queue)

\* C17: a stop that arrived while a stop of the same chat was waiting for
\* the cancelled task, and that is handled next after that stop, reports
\* false at once, and a stop that has waited for the task reports true: of
\* the two stops exactly one reports a cancelled cycle.
C17_OverlappingStops ==
    [][\A c \in Chats :
        /\ (/\ Taken
            /\ Head(queue).chat = c
            /\ Head(queue).op \in StopOps
            /\ Head(queue).during \in StopOps
            /\ \/ hdl.op \in StopOps /\ hdl.chat = c
               \/ hdl = Idle /\ last.op \in StopOps /\ last.chat = c) =>
               /\ hdl' = Idle
               /\ last'.op = Head(queue).op
               /\ last'.cancelled = Some(FALSE)
        /\ (/\ hdl.op \in StopOps
            /\ hdl.chat = c
            /\ hdl.pc = "await"
            /\ hdl' = Idle) => last'.cancelled = Some(TRUE)
      ]_vars

\* A second stop has arrived and waits while the first stop waits for the
\* task it has cancelled.
C17_Witness ==
    /\ hdl.op \in StopOps
    /\ hdl.pc = "await"
    /\ tasks[hdl.chat][hdl.task].st = "cancelling"
    /\ queue # <<>>
    /\ Head(queue).op \in StopOps
    /\ Head(queue).chat = hdl.chat
    /\ Head(queue).during \in StopOps


\* C18: a loop task finishes only by cancellation: a task that has not
\* been cancelled stays alive, whatever the outcome of its sends.
C18_LoopEndsOnlyByCancellation ==
    [][\A c \in Chats : \A i \in TaskIds :
        (/\ tasks[c][i].st \in {"live", "cancelling"}
         /\ tasks'[c][i].st \in {"cancelled", "failed"}) =>
            /\ tasks[c][i].st = "cancelling"
            /\ tasks'[c][i].st = "cancelled"
      ]_vars

\* A loop task has finished with the exception of a send, and nothing has
\* cancelled it: the slot of its chat still references it.
C18_Witness ==
    \E c \in Chats : \E i \in TaskIds :
        /\ tasks[c][i].st = "failed"
        /\ chat_data[c].work_rest_task = Some(i)


C20_WorkDurationOfSameChat ==
    [][(/\ hdl'.op = "rest_duration"
        /\ hdl'.pc = "send"
        /\ hdl.pc # "send") =>
            /\ hdl'.work_m = entered[hdl'.chat][1]
            /\ tasks'[hdl'.chat][hdl'.task].work_m = entered[hdl'.chat][1]
      ]_vars

\* The user has entered different work durations in two chats and both
\* conversations wait for the rest duration.
C20_Witness ==
    \E c \in Chats : \E d \in Chats :
        /\ c # d
        /\ conv[c] = REST_DURATION
        /\ conv[d] = REST_DURATION
        /\ entered[c] # None
        /\ entered[d] # None
        /\ entered[c] # entered[d]

====
